---- MODULE Spec2Model ----
(***************************************************************************)
(* Scale / arpeggio notation generator of src/main.py.                     *)
(*                                                                         *)
(* A state is one call in progress: either create_scale_measures, or       *)
(* create_arpeggio_measures, or a direct use of fix_enharmonic_spelling on *)
(* one note, or create_custom_line_measures, or                            *)
(* create_score_for_single_key_scales_arpeggios, which calls the two       *)
(* generators.  The loops are taken one iteration per step.                *)
(*                                                                         *)
(* A pitch is [step, alter, octave]: step 0..6 is the letter C D E F G A B,*)
(* alter the accidental in semitones, octave the scientific octave (it     *)
(* increments at C).  Durations are kept by type name as in the code;      *)
(* lengths are counted in eighth notes so that they stay integers.         *)
(***************************************************************************)
EXTENDS Integers, Sequences, FiniteSets, TLC

VARIABLES
    fn,               \* the function running: "scale", "arpeggio", "fix", "custom", "score"
    tonic,            \* scale_object.tonic: [step, alter]
    kind,             \* scale_object's interval pattern: "major" or "pentatonic"
    octave_start,     \* argument octave_start
    num_octaves,      \* argument num_octaves
    pc,               \* position in the function body
    scale_pitches,    \* create_arpeggio_measures: result of getPitches
    arpeggio_up,      \* create_arpeggio_measures: ascending arpeggio
    o,                \* create_arpeggio_measures: octave loop variable
    all_pitches,      \* the pitch list the segmentation loop walks
    i,                \* segmentation loop index (0-based, as enumerate gives it)
    note_counter,     \* note_counter
    current_measure,  \* current_measure
    measures_stream,  \* measures_stream
    outcome,          \* "running", "returned" or "raised"
    fix_trace,        \* "fix" only: the note's pitch before and after each call
    score,            \* create_score_for_single_key_scales_arpeggios: its locals
    notes_list,       \* create_custom_line_measures: argument notes_list
    note_duration     \* create_custom_line_measures: argument note_duration

vars == <<fn, tonic, kind, octave_start, num_octaves, pc, scale_pitches,
          arpeggio_up, o, all_pitches, i, note_counter, current_measure,
          measures_stream, outcome, fix_trace, score, notes_list, note_duration>>

\* ---------------------------------------------------------------- bounds
MaxOctaves == 4
MaxFixCalls == 2
MaxNotes == 17

\* num_octaves is not validated anywhere, so zero and a negative value are inputs too.
OctaveSpans == (0 - 1)..MaxOctaves
OctaveStarts == {3, 4}
FixOctaves == {3, 4, 5}

\* ---------------------------------------------------------------- pitches
Steps == 0..6
Alters == (0 - 2)..2

StepName == <<"C", "D", "E", "F", "G", "A", "B">>

\* Semitones of each natural letter above C.
NaturalSemitone == <<0, 2, 4, 5, 7, 9, 11>>

\* music21 writes the accidental after the letter: "#" for a sharp and "-" for
\* a flat (never "b", which is a letter name).
Modifier(alter) ==
    CASE alter = 0 -> ""
      [] alter = 1 -> "#"
      [] alter = 2 -> "##"
      [] alter = 0 - 1 -> "-"
      [] alter = 0 - 2 -> "--"

\* n.pitch.name (read): letter followed by the accidental's modifier.
PitchName(p) == StepName[p.step + 1] \o Modifier(p.alter)

\* n.pitch.name = new_name (write): the letter and accidental are replaced by
\* the ones the name spells, the octave is kept.
SetPitchName(p, name) ==
    LET sa == CHOOSE x \in Steps \X Alters :
                  StepName[x[1] + 1] \o Modifier(x[2]) = name
    IN  [step |-> sa[1], alter |-> sa[2], octave |-> p.octave]

\* Absolute semitone height.
Height(p) == 12 * p.octave + NaturalSemitone[p.step + 1] + p.alter

ENHARM_MAP ==
    ("E#" :> <<"F", 0>>) @@ ("B#" :> <<"C", 1>>) @@
    ("Cb" :> <<"B", 0 - 1>>) @@ ("Fb" :> <<"E", 0>>)

\* fix_enharmonic_spelling with the rename forgotten: only the octave moves.
fix_without_rename(p) ==
    LET original_name == PitchName(p) IN
    IF original_name \in DOMAIN ENHARM_MAP
    THEN [p EXCEPT !.octave = p.octave + ENHARM_MAP[original_name][2]]
    ELSE p

\* The pitch of note n after fix_enharmonic_spelling(n).  The forced display
\* of the accidental does not change the pitch.
fix_enharmonic_spelling(p) ==
    LET original_name == PitchName(p) IN
    IF original_name \in DOMAIN ENHARM_MAP
    THEN LET new_name == ENHARM_MAP[original_name][1]
             octave_adjust == ENHARM_MAP[original_name][2]
         IN  [SetPitchName(p, new_name) EXCEPT !.octave = p.octave + octave_adjust]
    ELSE p

\* ---------------------------------------------------------------- scales
\* scale_object: a tonic and an interval pattern.  For each degree of one
\* octave, the number of letters and of semitones above the tonic.
Tonics ==
    { [step |-> 0, alter |-> 0],        \* C
      [step |-> 4, alter |-> 0],        \* G
      [step |-> 3, alter |-> 1],        \* F#
      [step |-> 0, alter |-> 1],        \* C#
      [step |-> 0, alter |-> 0 - 1],    \* C-
      [step |-> 4, alter |-> 0 - 1] }   \* G-

ScaleKinds == {"major", "pentatonic"}

LetterSteps(k) == IF k = "major" THEN <<0, 1, 2, 3, 4, 5, 6>> ELSE <<0, 1, 2, 4, 5>>
SemitoneSteps(k) == IF k = "major" THEN <<0, 2, 4, 5, 7, 9, 11>> ELSE <<0, 2, 4, 7, 9>>
DegreesPerOctave(k) == Len(LetterSteps(k))

Reverse(s) == [x \in 1..Len(s) |-> s[Len(s) + 1 - x]]

\* The pitch d degrees (d >= 0) above the tonic t placed in octave oct.
ScalePitch(t, k, oct, d) ==
    LET per == DegreesPerOctave(k)
        letterAbs == t.step + LetterSteps(k)[(d % per) + 1] + 7 * (d \div per)
        st == letterAbs % 7
        oc == oct + (letterAbs \div 7)
        h == 12 * oct + NaturalSemitone[t.step + 1] + t.alter
               + 12 * (d \div per) + SemitoneSteps(k)[(d % per) + 1]
    IN  [step |-> st, alter |-> h - (12 * oc + NaturalSemitone[st + 1]), octave |-> oc]

\* scale_object.getPitches(tonic at octave_start, tonic at octave_start + span):
\* every scale pitch from the first bound to the second, both included; when
\* the first bound is the higher one the same pitches come back descending.
getPitches(t, k, oct, span) ==
    IF span >= 0
    THEN [d \in 1..(DegreesPerOctave(k) * span + 1) |-> ScalePitch(t, k, oct, d - 1)]
    ELSE Reverse([d \in 1..(DegreesPerOctave(k) * (0 - span) + 1) |->
                     ScalePitch(t, k, oct + span, d - 1)])

\* s[:-1]
DropLast(s) == SubSeq(s, 1, Len(s) - 1)

\* pitches_up + list(reversed(pitches_up[:-1])) with the top pitch repeated.
ScaleAllPitchesTopTwice(pitches_up) == pitches_up \o Reverse(pitches_up)

\* pitches_up + list(reversed(pitches_up[:-1]))
ScaleAllPitches(pitches_up) == pitches_up \o Reverse(DropLast(pitches_up))

\* ---------------------------------------------------------------- measures
\* stream.Measure(): no text expression, no notes.
EmptyMeasure == [label |-> FALSE, notes |-> <<>>]

\* note.Note(p) with the given duration type, after fix_enharmonic_spelling.
NewNote(p, durType) == [pitch |-> fix_enharmonic_spelling(p), dur |-> durType]

\* Length of a duration type, in eighth notes.
DurationLength(durType) ==
    CASE durType = "whole" -> 8
      [] durType = "quarter" -> 2
      [] durType = "eighth" -> 1

\* note.Note(p) keeps p itself as its pitch, and the descending half of the
\* list holds the very objects of the ascending half: renaming the note at
\* 0-based index idx renames the list entry at idx and at its mirror.
RenameShared(pitches, idx) ==
    LET fixed == fix_enharmonic_spelling(pitches[idx + 1])
        len == Len(pitches)
    IN  [x \in 1..len |-> IF x = idx + 1 \/ x = len - idx THEN fixed ELSE pitches[x]]

\* ---------------------------------------------------------------- shared loop tests
\* i == len(all_pitches) - 1, tested one element late.
IsLastPitchLate(idx, pitches) == idx = Len(pitches)

\* i == len(all_pitches) - 1
IsLastPitch(idx, pitches) == idx = Len(pitches) - 1

\* The text expression inserted whatever the index.
LabelAlways(idx) == TRUE

\* if i == 0: insert the text expression
LabelHere(idx) == idx = 0

\* measures_stream.append(current_measure) without the test for notes.
FlushAlways(ms, cm) == Append(ms, cm)

\* if current_measure.notes: measures_stream.append(current_measure)
Flush(ms, cm) == IF cm.notes # <<>> THEN Append(ms, cm) ELSE ms

\* The closing measure: a new measure, labelled when the pitch is also the
\* first one, holding the pitch as a whole note.
WholeNoteMeasure(idx, p) ==
    [label |-> LabelHere(idx), notes |-> <<NewNote(p, "whole")>>]

\* ---------------------------------------------------------------- create_scale_measures
scale_notes_per_measure == 7

\* Every note of the template a quarter.
ScaleDurationAllQuarters(position_in_measure) == "quarter"

\* 1 quarter + 6 eighths
ScaleDuration(position_in_measure) ==
    IF position_in_measure = 0 THEN "quarter" ELSE "eighth"

ScaleBuildPitches ==
    /\ pc = "start" /\ fn = "scale"
    /\ all_pitches' = ScaleAllPitches(getPitches(tonic, kind, octave_start, num_octaves))
    /\ measures_stream' = <<>>
    /\ current_measure' = EmptyMeasure
    /\ note_counter' = 0
    /\ i' = 0
    /\ pc' = "loop"
    /\ UNCHANGED <<fn, tonic, kind, octave_start, num_octaves, scale_pitches,
                   arpeggio_up, o, outcome, fix_trace,
                   score, notes_list, note_duration>>

ScaleLastPitch ==
    /\ pc = "loop" /\ fn = "scale"
    /\ i < Len(all_pitches)
    /\ IsLastPitch(i, all_pitches)
    /\ measures_stream' = Append(Flush(measures_stream, current_measure),
                                 WholeNoteMeasure(i, all_pitches[i + 1]))
    /\ all_pitches' = RenameShared(all_pitches, i)
    /\ pc' = "done"
    /\ outcome' = "returned"
    /\ UNCHANGED <<fn, tonic, kind, octave_start, num_octaves, scale_pitches,
                   arpeggio_up, o, i, note_counter, current_measure, fix_trace,
                   score, notes_list, note_duration>>

ScaleMeasureStart ==
    /\ pc = "loop" /\ fn = "scale"
    /\ i < Len(all_pitches)
    /\ ~IsLastPitch(i, all_pitches)
    /\ note_counter % scale_notes_per_measure = 0
    /\ measures_stream' = Flush(measures_stream, current_measure)
    /\ current_measure' =
           [label |-> LabelHere(i),
            notes |-> <<NewNote(all_pitches[i + 1], ScaleDuration(0))>>]
    /\ all_pitches' = RenameShared(all_pitches, i)
    /\ note_counter' = note_counter + 1
    /\ i' = i + 1
    /\ UNCHANGED <<fn, tonic, kind, octave_start, num_octaves, pc, scale_pitches,
                   arpeggio_up, o, outcome, fix_trace,
                   score, notes_list, note_duration>>

ScaleContinue ==
    /\ pc = "loop" /\ fn = "scale"
    /\ i < Len(all_pitches)
    /\ ~IsLastPitch(i, all_pitches)
    /\ note_counter % scale_notes_per_measure # 0
    /\ current_measure' =
           [current_measure EXCEPT !.notes =
               Append(@, NewNote(all_pitches[i + 1],
                                 ScaleDuration(note_counter % scale_notes_per_measure)))]
    /\ all_pitches' = RenameShared(all_pitches, i)
    /\ note_counter' = note_counter + 1
    /\ i' = i + 1
    /\ UNCHANGED <<fn, tonic, kind, octave_start, num_octaves, pc, scale_pitches,
                   arpeggio_up, o, measures_stream, outcome, fix_trace,
                   score, notes_list, note_duration>>

\* The for loop has no element left to give: return measures_stream.
LoopExhausted ==
    /\ pc = "loop" /\ fn \in {"scale", "arpeggio"}
    /\ i >= Len(all_pitches)
    /\ pc' = "done"
    /\ outcome' = "returned"
    /\ UNCHANGED <<fn, tonic, kind, octave_start, num_octaves, scale_pitches,
                   arpeggio_up, o, all_pitches, i, note_counter, current_measure,
                   measures_stream, fix_trace,
                   score, notes_list, note_duration>>

\* ---------------------------------------------------------------- create_arpeggio_measures
arpeggio_notes_per_measure == 8

\* scale_pitches[idx] raises IndexError (idx is never negative here).
IndexError(sp, idx) == idx >= Len(sp)

\* The octave tone added in every octave, not only in the last.
ArpeggioOctaveEveryTop(sp, oo, span) ==
    LET base_idx == 7 * oo IN
    IF \E d \in {0, 2, 4, 7} : IndexError(sp, base_idx + d)
    THEN <<>>
    ELSE <<sp[base_idx + 1], sp[base_idx + 3], sp[base_idx + 5], sp[base_idx + 8]>>

\* One pass of the body of "for o in range(num_octaves)": what it appends to
\* arpeggio_up.  The three (or four) lookups come before the extend, inside
\* one try, so an IndexError of any of them leaves nothing appended.
ArpeggioOctave(sp, oo, span) ==
    LET base_idx == 7 * oo IN
    IF \E d \in {0, 2, 4} : IndexError(sp, base_idx + d)
    THEN <<>>
    ELSE IF oo < span - 1
         THEN <<sp[base_idx + 1], sp[base_idx + 3], sp[base_idx + 5]>>
         ELSE IF IndexError(sp, base_idx + 7)
              THEN <<>>
              ELSE <<sp[base_idx + 1], sp[base_idx + 3], sp[base_idx + 5],
                     sp[base_idx + 8]>>

\* arpeggio_up + (list(reversed(arpeggio_up[:-1])) if len(arpeggio_up) > 1 else [])
ArpeggioAllPitches(up) ==
    up \o (IF Len(up) > 1 THEN Reverse(DropLast(up)) ELSE <<>>)

ArpeggioGetPitches ==
    /\ pc = "start" /\ fn = "arpeggio"
    /\ measures_stream' = <<>>
    /\ scale_pitches' = getPitches(tonic, kind, octave_start, num_octaves)
    /\ arpeggio_up' = <<>>
    /\ o' = 0
    /\ pc' = "octaves"
    /\ UNCHANGED <<fn, tonic, kind, octave_start, num_octaves, all_pitches, i,
                   note_counter, current_measure, outcome, fix_trace,
                   score, notes_list, note_duration>>

ArpeggioOctaveStep ==
    /\ pc = "octaves" /\ fn = "arpeggio"
    /\ o < num_octaves
    /\ arpeggio_up' = arpeggio_up \o ArpeggioOctave(scale_pitches, o, num_octaves)
    /\ o' = o + 1
    /\ UNCHANGED <<fn, tonic, kind, octave_start, num_octaves, pc, scale_pitches,
                   all_pitches, i, note_counter, current_measure, measures_stream,
                   outcome, fix_trace,
                   score, notes_list, note_duration>>

ArpeggioBuildPitches ==
    /\ pc = "octaves" /\ fn = "arpeggio"
    /\ o >= num_octaves
    /\ all_pitches' = ArpeggioAllPitches(arpeggio_up)
    /\ current_measure' = EmptyMeasure
    /\ note_counter' = 0
    /\ i' = 0
    /\ pc' = "loop"
    /\ UNCHANGED <<fn, tonic, kind, octave_start, num_octaves, scale_pitches,
                   arpeggio_up, o, measures_stream, outcome, fix_trace,
                   score, notes_list, note_duration>>

ArpeggioLastPitch ==
    /\ pc = "loop" /\ fn = "arpeggio"
    /\ i < Len(all_pitches)
    /\ IsLastPitch(i, all_pitches)
    /\ measures_stream' = Append(Flush(measures_stream, current_measure),
                                 WholeNoteMeasure(i, all_pitches[i + 1]))
    /\ all_pitches' = RenameShared(all_pitches, i)
    /\ pc' = "done"
    /\ outcome' = "returned"
    /\ UNCHANGED <<fn, tonic, kind, octave_start, num_octaves, scale_pitches,
                   arpeggio_up, o, i, note_counter, current_measure, fix_trace,
                   score, notes_list, note_duration>>

ArpeggioNote ==
    /\ pc = "loop" /\ fn = "arpeggio"
    /\ i < Len(all_pitches)
    /\ ~IsLastPitch(i, all_pitches)
    /\ LET position_in_measure == note_counter % arpeggio_notes_per_measure
           opened == IF position_in_measure = 0
                     THEN [label |-> LabelHere(i), notes |-> <<>>]
                     ELSE current_measure
       IN  /\ measures_stream' = IF position_in_measure = 0
                                 THEN Flush(measures_stream, current_measure)
                                 ELSE measures_stream
           /\ current_measure' =
                  [opened EXCEPT !.notes = Append(@, NewNote(all_pitches[i + 1], "eighth"))]
    /\ all_pitches' = RenameShared(all_pitches, i)
    /\ note_counter' = note_counter + 1
    /\ i' = i + 1
    /\ UNCHANGED <<fn, tonic, kind, octave_start, num_octaves, pc, scale_pitches,
                   arpeggio_up, o, outcome, fix_trace,
                   score, notes_list, note_duration>>

\* ---------------------------------------------------------------- fix_enharmonic_spelling alone
\* Every spelling a note can have.
AllPitches == [step : Steps, alter : Alters, octave : FixOctaves]

FixNote ==
    /\ pc = "start" /\ fn = "fix"
    /\ Len(fix_trace) <= MaxFixCalls
    /\ fix_trace' = Append(fix_trace, fix_enharmonic_spelling(fix_trace[Len(fix_trace)]))
    /\ UNCHANGED <<fn, tonic, kind, octave_start, num_octaves, pc, scale_pitches,
                   arpeggio_up, o, all_pitches, i, note_counter, current_measure,
                   measures_stream, outcome, score, notes_list, note_duration>>

\* ---------------------------------------------------------------- determine_clef_and_octave
\* A Python tuple (clef, octave).
Tuple(c, oc) == [type |-> "tuple", items |-> <<c, oc>>]

unpitched_percussion == {"Bass Drum", "Cymbals", "Snare Drum", "Triangle", "Tambourine"}

\* instrument_map.get(instrument_name, ("TrebleClef", 4))
instrument_map_get(instrument_name) ==
    CASE instrument_name \in {"Violin", "Guitar", "Harp", "Alto Saxophone", "Clarinet",
                              "Tenor Saxophone", "French Horn", "Marimba", "Vibraphone"}
             -> Tuple("TrebleClef", 3)
      [] instrument_name = "Viola" -> Tuple("AltoClef", 3)
      [] instrument_name \in {"Cello", "Bassoon", "Euphonium", "Trombone"}
             -> Tuple("BassClef", 2)
      [] instrument_name \in {"Double Bass", "Tuba"} -> Tuple("BassClef", 1)
      [] instrument_name = "Bass Clarinet" -> Tuple("TrebleClef", 2)
      [] instrument_name \in {"English Horn", "Flute", "Oboe", "Trumpet", "Xylophone",
                              "Organ", "Voice"}
             -> Tuple("TrebleClef", 4)
      [] instrument_name = "Piccolo" -> Tuple("TrebleClef", 5)
      [] instrument_name = "Timpani" -> Tuple("BassClef", 3)
      [] OTHER -> Tuple("TrebleClef", 4)

\* The value determine_clef_and_octave(instrument_name, part) returns: for
\* the piano the entry of the two-hand table that part selects, a tuple like
\* every other result.
determine_clef_and_octave(instrument_name, part) ==
    IF instrument_name = "Piano"
    THEN (IF part = "right" THEN Tuple("TrebleClef", 4) ELSE Tuple("BassClef", 2))
    ELSE IF instrument_name = "Electric Piano" THEN Tuple("TrebleClef", 4)
    ELSE IF instrument_name \in unpitched_percussion THEN Tuple("PercussionClef", 4)
    ELSE instrument_map_get(instrument_name)

\* ---------------------------------------------------------------- create_score_for_single_key_scales_arpeggios
Instruments == {"Piano", "Alto Saxophone", "Cello", "Snare Drum", "Theremin"}

\* No score is being built.
NoScore ==
    [active |-> FALSE, instrument_name |-> "", clef_octave |-> <<>>, hand |-> "",
     selected_clef |-> "", part |-> <<>>, sc |-> <<>>]

\* stream.Part() for one staff.
NewPart(hand, oct) == [hand |-> hand, octave_start |-> oct, clef |-> "", measures |-> <<>>]

\* value[key] with a string key raises TypeError unless value is a dict.
StrSubscriptRaises(value) == value.type # "dict"

\* sc = stream.Score(); clef_octave = determine_clef_and_octave(instrument_name)
ScoreDetermineClef ==
    /\ pc = "start" /\ fn = "score"
    /\ score' = [score EXCEPT
                    !.clef_octave = determine_clef_and_octave(score.instrument_name, "right"),
                    !.sc = <<>>]
    /\ pc' = "branch"
    /\ UNCHANGED <<fn, tonic, kind, octave_start, num_octaves, scale_pitches,
                   arpeggio_up, o, all_pitches, i, note_counter, current_measure,
                   measures_stream, outcome, fix_trace, notes_list, note_duration>>

\* The piano branch up to the right hand's call of create_scale_measures.
\* clef_octave['right'] is evaluated for the call's arguments.
ScorePianoRightHand ==
    /\ pc = "branch" /\ fn = "score"
    /\ score.instrument_name = "Piano"
    /\ IF StrSubscriptRaises(score.clef_octave)
       THEN /\ pc' = "done"
            /\ outcome' = "raised"
            /\ UNCHANGED <<fn, kind, octave_start, score>>
       ELSE /\ score' = [score EXCEPT
                            !.hand = "right",
                            !.selected_clef = score.clef_octave.right.items[1],
                            !.part = NewPart("right", score.clef_octave.right.items[2])]
            /\ octave_start' = score.clef_octave.right.items[2]
            /\ kind' = "major"
            /\ fn' = "scale"
            /\ pc' = "start"
            /\ UNCHANGED outcome
    /\ UNCHANGED <<tonic, num_octaves, scale_pitches, arpeggio_up, o, all_pitches, i,
                   note_counter, current_measure, measures_stream, fix_trace,
                   notes_list, note_duration>>

\* The single-staff branch up to its call of create_scale_measures.
ScoreSingleStaff ==
    /\ pc = "branch" /\ fn = "score"
    /\ score.instrument_name # "Piano"
    /\ LET unpacked == IF score.clef_octave.type = "tuple"
                       THEN score.clef_octave.items
                       ELSE <<"TrebleClef", 4>>
       IN  /\ score' = [score EXCEPT !.hand = "single",
                                     !.selected_clef = unpacked[1],
                                     !.part = NewPart("single", unpacked[2])]
           /\ octave_start' = unpacked[2]
    /\ kind' = "major"
    /\ fn' = "scale"
    /\ pc' = "start"
    /\ UNCHANGED <<tonic, num_octaves, scale_pitches, arpeggio_up, o, all_pitches, i,
                   note_counter, current_measure, measures_stream, outcome, fix_trace,
                   notes_list, note_duration>>

\* create_scale_measures has returned to the score builder: the clef goes
\* into the first measure when there is one, the measures go into the part,
\* and create_arpeggio_measures is called.
ScoreAfterScale ==
    /\ pc = "done" /\ fn = "scale" /\ score.active
    /\ score' = [score EXCEPT
                    !.part.clef = IF measures_stream # <<>> THEN score.selected_clef ELSE "",
                    !.part.measures = @ \o measures_stream]
    /\ fn' = "arpeggio"
    /\ pc' = "start"
    /\ outcome' = "running"
    /\ UNCHANGED <<tonic, kind, octave_start, num_octaves, scale_pitches, arpeggio_up,
                   o, all_pitches, i, note_counter, current_measure, measures_stream,
                   fix_trace, notes_list, note_duration>>

\* create_arpeggio_measures has returned to the score builder: its measures
\* go into the part; after the right hand the left hand starts, otherwise the
\* parts are inserted into the score and the score is returned.
ScoreAfterArpeggio ==
    /\ pc = "done" /\ fn = "arpeggio" /\ score.active
    /\ LET finished == [score.part EXCEPT !.measures = @ \o measures_stream] IN
       IF score.hand = "right"
       THEN /\ score' = [score EXCEPT
                            !.hand = "left",
                            !.selected_clef = score.clef_octave.left.items[1],
                            !.part = NewPart("left", score.clef_octave.left.items[2]),
                            !.sc = Append(@, finished)]
            /\ octave_start' = score.clef_octave.left.items[2]
            /\ fn' = "scale"
            /\ pc' = "start"
            /\ outcome' = "running"
       ELSE /\ score' = [score EXCEPT !.part = <<>>, !.sc = Append(@, finished)]
            /\ fn' = "score"
            /\ pc' = "done"
            /\ outcome' = "returned"
            /\ UNCHANGED octave_start
    /\ UNCHANGED <<tonic, kind, num_octaves, scale_pitches, arpeggio_up, o, all_pitches,
                   i, note_counter, current_measure, measures_stream, fix_trace,
                   notes_list, note_duration>>

\* ---------------------------------------------------------------- create_custom_line_measures
custom_notes_per_measure == 8

\* A note name as notes_list holds it: the spelling and the octave digit.
NoteName(name, oct) == [name |-> name, octave |-> oct]

\* The pitch of note.Note(note_name): the letter and accidental the name
\* spells, in the octave it gives.
NoteFromName(nn) == SetPitchName([step |-> 0, alter |-> 0, octave |-> nn.octave], nn.name)

\* The line of the main program and a line of awkward spellings, flats
\* written the way music21 reads them.
CustomLines ==
    { << NoteName("C", 4), NoteName("D#", 4), NoteName("F", 4), NoteName("G", 4),
         NoteName("A", 4), NoteName("B-", 4), NoteName("B#", 4), NoteName("C", 5) >>,
      << NoteName("E#", 4), NoteName("C-", 4), NoteName("F-", 5), NoteName("G", 3),
         NoteName("B#", 3) >> }

\* The first len names of a line repeated over and over.
Repeated(line, len) == [x \in 1..len |-> line[((x - 1) % Len(line)) + 1]]

NoteDurations == {"quarter", "eighth"}

\* The break test without "and note_counter != 0".
CustomBreakAtZero(counter) == counter % custom_notes_per_measure = 0

\* note_counter % notes_per_measure == 0 and note_counter != 0
CustomBreak(counter) == counter % custom_notes_per_measure = 0 /\ counter # 0

CustomStart ==
    /\ pc = "start" /\ fn = "custom"
    /\ measures_stream' = <<>>
    /\ current_measure' = EmptyMeasure
    /\ note_counter' = 0
    /\ i' = 0
    /\ pc' = "loop"
    /\ UNCHANGED <<fn, tonic, kind, octave_start, num_octaves, scale_pitches,
                   arpeggio_up, o, all_pitches, outcome, fix_trace, score, notes_list,
                   note_duration>>

\* One pass of "for i, note_name in enumerate(notes_list)".
CustomNote ==
    /\ pc = "loop" /\ fn = "custom"
    /\ i < Len(notes_list)
    /\ LET titled == IF LabelHere(i)
                     THEN [current_measure EXCEPT !.label = TRUE]
                     ELSE current_measure
           n == [pitch |-> fix_enharmonic_spelling(NoteFromName(notes_list[i + 1])),
                 dur |-> note_duration]
       IN  IF CustomBreak(note_counter)
           THEN /\ measures_stream' = Append(measures_stream, titled)
                /\ current_measure' = [EmptyMeasure EXCEPT !.notes = <<n>>]
           ELSE /\ measures_stream' = measures_stream
                /\ current_measure' = [titled EXCEPT !.notes = Append(@, n)]
    /\ note_counter' = note_counter + 1
    /\ i' = i + 1
    /\ UNCHANGED <<fn, tonic, kind, octave_start, num_octaves, pc, scale_pitches,
                   arpeggio_up, o, all_pitches, outcome, fix_trace, score, notes_list,
                   note_duration>>

\* After the loop: the last measure is appended if it has notes, and the
\* stream is returned.
CustomFinish ==
    /\ pc = "loop" /\ fn = "custom"
    /\ i >= Len(notes_list)
    /\ measures_stream' = Flush(measures_stream, current_measure)
    /\ pc' = "done"
    /\ outcome' = "returned"
    /\ UNCHANGED <<fn, tonic, kind, octave_start, num_octaves, scale_pitches,
                   arpeggio_up, o, all_pitches, i, note_counter, current_measure,
                   fix_trace, score, notes_list, note_duration>>

\* ---------------------------------------------------------------- specification
Init ==
    /\ fn \in {"scale", "arpeggio", "fix", "score", "custom"}
    /\ IF fn \in {"fix", "custom"}
       THEN /\ tonic = [step |-> 0, alter |-> 0]
            /\ kind = "major"
            /\ octave_start = 4
            /\ num_octaves = 1
            /\ fix_trace \in IF fn = "fix" THEN {<<p>> : p \in AllPitches} ELSE {<<>>}
       ELSE IF fn = "score"
       THEN /\ tonic \in Tonics
            /\ kind = "major"
            /\ octave_start = 4
            /\ num_octaves \in OctaveSpans
            /\ fix_trace = <<>>
       ELSE /\ tonic \in Tonics
            /\ kind \in ScaleKinds
            /\ octave_start \in OctaveStarts
            /\ num_octaves \in OctaveSpans
            /\ fix_trace = <<>>
    /\ pc = "start"
    /\ scale_pitches = <<>>
    /\ arpeggio_up = <<>>
    /\ o = 0
    /\ all_pitches = <<>>
    /\ i = 0
    /\ note_counter = 0
    /\ current_measure = EmptyMeasure
    /\ measures_stream = <<>>
    /\ outcome = "running"
    /\ IF fn = "score"
       THEN score \in {[NoScore EXCEPT !.active = TRUE, !.instrument_name = ins] :
                          ins \in Instruments}
       ELSE score = NoScore
    /\ IF fn = "custom"
       THEN /\ notes_list \in {Repeated(line, len) : line \in CustomLines, len \in 0..MaxNotes}
            /\ note_duration \in NoteDurations
       ELSE /\ notes_list = <<>>
            /\ note_duration = "quarter"

Next ==
    \/ ScaleBuildPitches
    \/ ScaleLastPitch
    \/ ScaleMeasureStart
    \/ ScaleContinue
    \/ ArpeggioGetPitches
    \/ ArpeggioOctaveStep
    \/ ArpeggioBuildPitches
    \/ ArpeggioLastPitch
    \/ ArpeggioNote
    \/ LoopExhausted
    \/ FixNote
    \/ ScoreDetermineClef
    \/ ScorePianoRightHand
    \/ ScoreSingleStaff
    \/ ScoreAfterScale
    \/ ScoreAfterArpeggio
    \/ CustomStart
    \/ CustomNote
    \/ CustomFinish

Spec == Init /\ [][Next]_vars

\* ---------------------------------------------------------------- properties
\* The pitch list handed to the segmentation loop, as it was before the loop
\* renamed any of its pitches.
InputPitches ==
    IF fn = "scale"
    THEN ScaleAllPitches(getPitches(tonic, kind, octave_start, num_octaves))
    ELSE IF fn = "custom"
    THEN [x \in 1..Len(notes_list) |-> NoteFromName(notes_list[x])]
    ELSE ArpeggioAllPitches(arpeggio_up)

\* One more pass of a generator's segmentation loop, or its end.
SegmentationStep ==
    \/ ScaleLastPitch \/ ScaleMeasureStart \/ ScaleContinue
    \/ ArpeggioLastPitch \/ ArpeggioNote
    \/ LoopExhausted

Generating == fn \in {"scale", "arpeggio"}
Returned == Generating /\ pc = "done"

RECURSIVE NotesLength(_)
\* Summed length of a measure's notes, in eighth notes.
NotesLength(notes) ==
    IF notes = <<>> THEN 0
    ELSE DurationLength(notes[1].dur) + NotesLength(Tail(notes))

\* A 4/4 measure holds 4 beats, that is 8 eighth notes.
MeterCapacity == 8

HasWhole(m) == \E e \in 1..Len(m.notes) : m.notes[e].dur = "whole"

CeilDiv(a, b) == (a + b - 1) \div b

\* C1: when a generator returns for a pitch list of length n >= 1, the last
\* emitted measure is a fresh measure (not the accumulator, which was emitted
\* before it when it held notes) with exactly one event, the last pitch after
\* fix_enharmonic_spelling as a whole note; no other emitted measure holds a
\* whole note; and no step of the call follows the emission.
C1_TerminalWholeMeasure ==
    (Returned /\ Len(InputPitches) >= 1) =>
        LET ms == measures_stream
            len == Len(ms)
            lastp == InputPitches[Len(InputPitches)]
        IN  /\ len >= 1
            /\ ms[len].notes = <<[pitch |-> fix_enharmonic_spelling(lastp), dur |-> "whole"]>>
            /\ \A m \in 1..(len - 1) : ~HasWhole(ms[m])
            /\ current_measure.notes # <<>> => (len >= 2 /\ ms[len - 1] = current_measure)
            /\ current_measure.notes = <<>> => len = 1
            /\ ~ENABLED SegmentationStep

C1_Witness ==
    /\ Returned /\ fn = "scale"
    /\ Len(measures_stream) >= 3
    /\ HasWhole(measures_stream[Len(measures_stream)])

\* C2: with n pitches and L notes per template (7 for the scale, 8 for the
\* arpeggio) a generator returns without error 0 measures when n = 0 and
\* ceil((n-1)/L) + 1 measures when n >= 1: L events in every measure before
\* the penultimate, (n-1) mod L (L when that is 0) in the penultimate, 1 in
\* the last; so 15 pitches of a scale give measures of 7, 7 and 1 events.
C2_MeasureCount ==
    Returned =>
        LET ms == measures_stream
            len == Len(ms)
            n == Len(InputPitches)
            L == IF fn = "scale" THEN 7 ELSE 8
        IN  /\ outcome = "returned"
            /\ n = 0 => len = 0
            /\ n >= 1 =>
                  /\ len = CeilDiv(n - 1, L) + 1
                  /\ \A m \in 1..(len - 2) : Len(ms[m].notes) = L
                  /\ len >= 2 => Len(ms[len - 1].notes) =
                                    (IF (n - 1) % L = 0 THEN L ELSE (n - 1) % L)
                  /\ Len(ms[len].notes) = 1
            /\ (fn = "scale" /\ n = 15) =>
                  [m \in 1..len |-> Len(ms[m].notes)] = <<7, 7, 1>>

C2_Witness ==
    /\ Returned /\ fn = "scale" /\ num_octaves = 1 /\ kind = "major"
    /\ Len(InputPitches) = 15
    /\ Len(measures_stream) = 3

\* C3: in what a generator returns for n >= 1 pitches, every measure lasts at
\* most 4 beats, every measure but the penultimate lasts exactly 4 beats, and
\* the penultimate lasts less than 4 beats exactly when (n-1) mod L # 0.
C3_MeasureDurations ==
    (Returned /\ Len(InputPitches) >= 1) =>
        LET ms == measures_stream
            len == Len(ms)
            n == Len(InputPitches)
            L == IF fn = "scale" THEN 7 ELSE 8
        IN  /\ \A m \in 1..len : NotesLength(ms[m].notes) <= MeterCapacity
            /\ \A m \in 1..len : m # len - 1 => NotesLength(ms[m].notes) = MeterCapacity
            /\ len >= 2 => (NotesLength(ms[len - 1].notes) < MeterCapacity
                               <=> (n - 1) % L # 0)

C3_Witness ==
    /\ Returned /\ fn = "arpeggio"
    /\ Len(measures_stream) = 3
    /\ NotesLength(measures_stream[1].notes) = MeterCapacity
    /\ NotesLength(measures_stream[2].notes) < MeterCapacity

\* C4: in what a generator returns for n >= 1 pitches exactly one measure
\* carries the label, and it is the first; for n = 1 that measure is the only
\* one, the whole-note measure.
C4_LabelOnFirstMeasure ==
    (Returned /\ Len(InputPitches) >= 1) =>
        LET ms == measures_stream IN
        /\ Len(ms) >= 1
        /\ {m \in 1..Len(ms) : ms[m].label} = {1}
        /\ Len(InputPitches) = 1 => (Len(ms) = 1 /\ HasWhole(ms[1]))

C4_Witness ==
    /\ Returned /\ fn = "arpeggio"
    /\ Len(measures_stream) >= 2
    /\ measures_stream[1].label
    /\ ~measures_stream[Len(measures_stream)].label

\* The pitch list has just been built and the segmentation loop has not
\* started.
ListBuilt == Generating /\ pc = "loop" /\ i = 0

\* The tonic in the given octave.
TonicAt(oct) == [step |-> tonic.step, alter |-> tonic.alter, octave |-> oct]

\* C5: for a 7-degree scale over k >= 1 octaves, the list create_scale_measures
\* builds has 14k+1 pitches (15 for k = 1): the 7k+1 ascending pitches, then
\* the same pitches descending without the top one; the top pitch occurs once,
\* and the list starts and ends on the starting tonic.
C5_ScaleUpAndDown ==
    (ListBuilt /\ fn = "scale" /\ kind = "major" /\ num_octaves >= 1) =>
        LET k == num_octaves
            up == getPitches(tonic, kind, octave_start, k)
            all == all_pitches
        IN  /\ Len(up) = 7 * k + 1
            /\ Len(all) = 14 * k + 1
            /\ k = 1 => Len(all) = 15
            /\ \A x \in 1..(7 * k + 1) : all[x] = up[x]
            /\ \A x \in 1..(7 * k) : all[7 * k + 1 + x] = up[7 * k + 1 - x]
            /\ Cardinality({x \in 1..Len(all) : all[x] = TonicAt(octave_start + k)}) = 1
            /\ all[1] = TonicAt(octave_start)
            /\ all[Len(all)] = TonicAt(octave_start)

C5_Witness ==
    /\ ListBuilt /\ fn = "scale" /\ kind = "major" /\ num_octaves = 1
    /\ Len(all_pitches) = 15
    /\ all_pitches[8] = TonicAt(octave_start + 1)

\* C6: for an arpeggio over k >= 1 octaves of a 7k+1-pitch scale list, the
\* ascending arpeggio is the pitches at indices 7o, 7o+2, 7o+4 for o = 0..k-1
\* followed by the pitch at index 7k: 3k+1 pitches; the full list adds them
\* reversed without the top one: 6k+1 pitches (7 and 13 for k = 2).
C6_ArpeggioDegrees ==
    (ListBuilt /\ fn = "arpeggio" /\ num_octaves >= 1
               /\ Len(scale_pitches) = 7 * num_octaves + 1) =>
        LET k == num_octaves
            up == arpeggio_up
            all == all_pitches
        IN  /\ Len(up) = 3 * k + 1
            /\ \A x \in 0..(3 * k - 1) :
                   up[x + 1] = scale_pitches[7 * (x \div 3) + 2 * (x % 3) + 1]
            /\ up[3 * k + 1] = scale_pitches[7 * k + 1]
            /\ Len(all) = 6 * k + 1
            /\ \A x \in 1..(3 * k + 1) : all[x] = up[x]
            /\ \A x \in 1..(3 * k) : all[3 * k + 1 + x] = up[3 * k + 1 - x]
            /\ k = 2 => (Len(up) = 7 /\ Len(all) = 13)

C6_Witness ==
    /\ ListBuilt /\ fn = "arpeggio" /\ kind = "major" /\ num_octaves = 2
    /\ Len(arpeggio_up) = 7
    /\ Len(all_pitches) = 13

\* The rewrite the table of four spellings describes: E sharp to F, B sharp to
\* C an octave up, C flat to B an octave down, F flat to E; any other pitch
\* as it is.
FourRewrites(p) ==
    CASE p.step = 2 /\ p.alter = 1 -> [step |-> 3, alter |-> 0, octave |-> p.octave]
      [] p.step = 6 /\ p.alter = 1 -> [step |-> 0, alter |-> 0, octave |-> p.octave + 1]
      [] p.step = 0 /\ p.alter = 0 - 1 -> [step |-> 6, alter |-> 0, octave |-> p.octave - 1]
      [] p.step = 3 /\ p.alter = 0 - 1 -> [step |-> 2, alter |-> 0, octave |-> p.octave]
      [] OTHER -> p

\* C7: one call of fix_enharmonic_spelling rewrites exactly the four spellings
\* E sharp, B sharp, C flat and F flat, leaves every other pitch as it is, and
\* keeps the absolute semitone height.
C7_FourSpellingsRewritten ==
    (fn = "fix" /\ Len(fix_trace) >= 2) =>
        /\ fix_trace[2] = FourRewrites(fix_trace[1])
        /\ Height(fix_trace[2]) = Height(fix_trace[1])

\* C8: a second call of fix_enharmonic_spelling changes nothing, and no name
\* ENHARM_MAP rewrites to is a name it rewrites.
C8_FixIdempotent ==
    (fn = "fix" /\ Len(fix_trace) >= 3) =>
        /\ fix_trace[3] = fix_trace[2]
        /\ \A name \in DOMAIN ENHARM_MAP : ENHARM_MAP[name][1] \notin DOMAIN ENHARM_MAP

C8_Witness ==
    /\ fn = "fix" /\ Len(fix_trace) = 3
    /\ fix_trace[2] # fix_trace[1]
    /\ fix_trace[3] = fix_trace[2]

\* C9: a call with num_octaves < 1 emits no measure and cannot end otherwise
\* than by raising an error.
C9_InvalidSpanRejected ==
    (Generating /\ num_octaves < 1) =>
        /\ measures_stream = <<>>
        /\ pc = "done" => outcome = "raised"

\* The 0-based scale indices the arpeggio selects over k >= 1 octaves, in
\* order: 7o, 7o+2, 7o+4 for each octave o and 7k at the end.
SelectedDegrees(k) ==
    [x \in 1..(3 * k + 1) |->
        IF x <= 3 * k THEN 7 * ((x - 1) \div 3) + 2 * ((x - 1) % 3) ELSE 7 * k]

\* C10: the ascending arpeggio holds, in order, the pitch of every selected
\* index that lies inside the scale list, the indices past its end being the
\* only ones left out, and no error is raised.
C10_OnlyOutOfRangeSkipped ==
    (fn = "arpeggio" /\ pc \in {"loop", "done"} /\ num_octaves >= 1) =>
        LET inRange == SelectSeq(SelectedDegrees(num_octaves),
                                 LAMBDA d : ~IndexError(scale_pitches, d))
        IN  /\ arpeggio_up = [x \in 1..Len(inRange) |-> scale_pitches[inRange[x] + 1]]
            /\ outcome # "raised"

\* The score builder has ended, by returning or by raising.
ScoreEnded == fn = "score" /\ pc = "done"

\* The measures of a part that carry a label.
Labelled(part) == {m \in 1..Len(part.measures) : part.measures[m].label}

\* C11: for the piano the score builder ends by returning a score of exactly
\* two parts: the right hand with the treble clef from octave 4, the left
\* hand with the bass clef from octave 2, each holding the measures of its
\* scale followed by the measures of its arpeggio.
C11_PianoTwoParts ==
    (ScoreEnded /\ score.instrument_name = "Piano") =>
        /\ outcome = "returned"
        /\ Len(score.sc) = 2
        /\ score.sc[1].hand = "right" /\ score.sc[1].clef = "TrebleClef"
        /\ score.sc[1].octave_start = 4
        /\ score.sc[2].hand = "left" /\ score.sc[2].clef = "BassClef"
        /\ score.sc[2].octave_start = 2
        /\ \A x \in 1..2 : /\ score.sc[x].measures # <<>>
                           /\ score.sc[x].measures[1].label
                           /\ Cardinality(Labelled(score.sc[x])) <= 2

\* create_custom_line_measures has returned.
CustomReturned == fn = "custom" /\ pc = "done"

\* C12: with note_duration 'quarter' every measure create_custom_line_measures
\* returns lasts at most the 4 beats of the meter.
C12_CustomMeasureWithinMeter ==
    (CustomReturned /\ note_duration = "quarter") =>
        \A m \in 1..Len(measures_stream) :
            NotesLength(measures_stream[m].notes) <= MeterCapacity

RECURSIVE EventPitches(_)
\* The pitches of the events of a list of measures, in order.
EventPitches(ms) ==
    IF ms = <<>> THEN <<>>
    ELSE [x \in 1..Len(ms[1].notes) |-> ms[1].notes[x].pitch] \o EventPitches(Tail(ms))

\* C13: when create_scale_measures, create_arpeggio_measures or
\* create_custom_line_measures returns, the events of the emitted measures,
\* taken in order, are the input pitches in their order, each as
\* fix_enharmonic_spelling leaves it, and no emitted measure is empty.
C13_NothingLostNoEmptyMeasure ==
    (Returned \/ CustomReturned) =>
        /\ EventPitches(measures_stream) =
               [x \in 1..Len(InputPitches) |-> fix_enharmonic_spelling(InputPitches[x])]
        /\ \A m \in 1..Len(measures_stream) : measures_stream[m].notes # <<>>

C13_Witness ==
    /\ CustomReturned
    /\ Len(measures_stream) = 3
    /\ Len(notes_list) = 17
    /\ EventPitches(measures_stream) # InputPitches

====
